---- MODULE Spec2Model ----
(***************************************************************************)
(* Model of app.py, the SGX value tracker: the watchlist persistence       *)
(* (load_watchlist / save_watchlist), the quote fetch and normalisation    *)
(* (fetch_safe_data), the fee engine (SGXEngine.calculate_fees) and the    *)
(* Streamlit script itself, which is re-executed top to bottom on every    *)
(* user interaction (tab 1: search and add, tab 2: watchlist rows, clear). *)
(*                                                                         *)
(* Strings are sequences of one-character strings, so that upper(),        *)
(* strip(), endswith(), replace() and slicing are computed, not assumed.   *)
(* Numbers are fixed-point integers: money per share, ratios and the       *)
(* return-on-equity fraction in hundredths, totalCash/totalDebt in whole   *)
(* dollars.                                                                *)
(***************************************************************************)
EXTENDS Integers, Sequences, FiniteSets, TLC

(***************************************************************************)
(* Bounds of the model.                                                    *)
(***************************************************************************)
\* Number of distinct base tickers the user may type.
NumTickers == 2
\* Largest number of upstream fields that deviate from a well-formed payload.
MaxOdd == 2
\* Trade values are the multiples of TradeStep up to MaxTradeSteps * TradeStep.
MaxTradeSteps == 120
TradeStep == 50

(***************************************************************************)
(* Strings.                                                                *)
(***************************************************************************)
Lower == <<"d", "o", "z", "s", "i">>
Upper == <<"D", "O", "Z", "S", "I">>

\* str.upper() on one character: letters are mapped, anything else is kept.
UpperChar(c) ==
    IF \E k \in 1..Len(Lower) : Lower[k] = c
    THEN Upper[CHOOSE k \in 1..Len(Lower) : Lower[k] = c]
    ELSE c

\* str.upper()
StrUpper(s) == [k \in 1..Len(s) |-> UpperChar(s[k])]

\* str.strip(): leading and trailing blanks removed.
StrStrip(s) ==
    LET keep == {k \in 1..Len(s) : s[k] # " "}
    IN  IF keep = {} THEN <<>>
        ELSE LET lo == CHOOSE k \in keep : \A j \in keep : k <= j
                 hi == CHOOSE k \in keep : \A j \in keep : k >= j
             IN  SubSeq(s, lo, hi)

\* str.endswith(suffix)
EndsWith(s, suffix) ==
    /\ Len(s) >= Len(suffix)
    /\ SubSeq(s, Len(s) - Len(suffix) + 1, Len(s)) = suffix

\* str.replace(old, ""): every non-overlapping occurrence of old, left to
\* right, is removed.
RECURSIVE StrRemoveAll(_, _)
StrRemoveAll(s, old) ==
    IF Len(s) < Len(old) \/ old = <<>> THEN s
    ELSE IF SubSeq(s, 1, Len(old)) = old
         THEN StrRemoveAll(SubSeq(s, Len(old) + 1, Len(s)), old)
         ELSE <<s[1]>> \o StrRemoveAll(SubSeq(s, 2, Len(s)), old)

\* s[:n]
StrTake(s, n) == SubSeq(s, 1, IF Len(s) < n THEN Len(s) ELSE n)

Suffix == <<".", "S", "I">>

(***************************************************************************)
(* Python values as they come out of the upstream info mapping: a key may  *)
(* be absent, or hold None, a number or a string.                          *)
(***************************************************************************)
Absent == [t |-> "absent", n |-> 0, s |-> <<>>]
Null   == [t |-> "null",   n |-> 0, s |-> <<>>]
Raised == [t |-> "raise",  n |-> 0, s |-> <<>>]
Num(k) == [t |-> "num",    n |-> k, s |-> <<>>]
\* A string carries its text and how many times the text is repeated.
Str(x) == [t |-> "str",    n |-> 1, s |-> x]

\* dict.get(key, default): the default only replaces a missing key; a key
\* that is present with None (or any other value) is returned as it is.
Get(v, default) == IF v.t = "absent" THEN default ELSE v

\* value * 100: a number is scaled, a string is repeated 100 times (and is
\* still a string), None raises TypeError.
Times100(v) ==
    CASE v.t = "num" -> Num(v.n * 100)
      [] v.t = "str" -> [v EXCEPT !.n = v.n * 100]
      [] OTHER       -> Raised

\* round(n / d, places) with Python's round-half-to-even, on exact values:
\* the integer nearest to n / d, for d # 0.
RoundDiv(n, d) ==
    LET nn == IF d < 0 THEN -n ELSE n
        dd == IF d < 0 THEN -d ELSE d
        q  == nn \div dd
        r  == nn % dd
    IN  IF 2 * r < dd THEN q
        ELSE IF 2 * r > dd THEN q + 1
        ELSE IF q % 2 = 0 THEN q ELSE q + 1

(***************************************************************************)
(* The upstream quote source: what yf.Ticker(symbol).info yields.          *)
(***************************************************************************)
Fields == {"currentPrice", "regularMarketPrice", "longName", "trailingPE",
           "dividendRate", "bookValue", "returnOnEquity", "totalCash",
           "totalDebt"}

NA == <<"N", "A">>
Unknown == <<"U", "n", "k", "n", "o", "w", "n">>

\* A well-formed payload: price 10.00, PE 12.00, dividend 0.50, book value
\* 20.00, return on equity 0.15, cash 5,000,000, debt 2,000,000.
Nominal ==
    [currentPrice |-> Num(1000), regularMarketPrice |-> Num(990),
     longName |-> Str(<<"D", "B", "S">>), trailingPE |-> Num(1200),
     dividendRate |-> Num(50), bookValue |-> Num(2000),
     returnOnEquity |-> Num(15), totalCash |-> Num(5000000),
     totalDebt |-> Num(2000000)]

\* What a field may hold instead: the key missing, None, the number 0, or a
\* string marker.
Alternatives == {Absent, Null, Num(0), Str(NA)}

\* The info mappings in which at most MaxOdd fields deviate from Nominal.
Infos ==
    UNION { { [k \in Fields |-> IF k \in D THEN g[k] ELSE Nominal[k]] :
                g \in [D -> Alternatives] } :
            D \in {D \in SUBSET Fields : Cardinality(D) <= MaxOdd} }

\* The most recent historical close, when the upstream has one.
HistClose == Num(980)

\* One answer of the upstream: the request raises, info is None or empty,
\* or info is a mapping; hist is the most recent historical close.
Upstreams ==
    [kind : {"dict"}, f : Infos, hist : {Absent, HistClose}]
    \cup [kind : {"raise", "empty"}, f : {Nominal}, hist : {Absent, HistClose}]

(***************************************************************************)
(* fetch_safe_data                                                         *)
(***************************************************************************)
\* None, as returned by fetch_safe_data.
NoQuote ==
    [some |-> FALSE, symbol |-> <<>>, name |-> Absent, price |-> Absent,
     pe |-> Absent, div |-> Absent, bv |-> Absent, roe |-> Absent,
     cash |-> Absent, debt |-> Absent]

\* Variant: the ticker is used as typed, the suffix is never added.
Symbol_NoSuffix(ticker) == ticker

\* symbol = ticker if ticker.endswith(".SI") else ticker + ".SI"
Symbol(ticker) == IF EndsWith(ticker, Suffix) THEN ticker ELSE ticker \o Suffix

\* fetch_safe_data(ticker) when the upstream answers up.  The result cache
\* (st.cache_data, ttl 600 s, cleared by the refresh button) only decides
\* whether the upstream is asked again; every call is given an answer here.
fetch_safe_data(ticker, up) ==
    IF ticker = <<>> THEN NoQuote
    ELSE IF up.kind = "raise" THEN NoQuote
    ELSE IF up.kind = "empty" \/ up.f.currentPrice.t = "absent" THEN NoQuote
    ELSE IF Times100(Get(up.f.returnOnEquity, Num(0))).t = "raise" THEN NoQuote
    ELSE [some   |-> TRUE,
          symbol |-> Symbol(ticker),
          name   |-> Get(up.f.longName, Str(Unknown)),
          price  |-> Get(up.f.currentPrice, Num(0)),
          pe     |-> Get(up.f.trailingPE, Num(0)),
          div    |-> Get(up.f.dividendRate, Num(0)),
          bv     |-> Get(up.f.bookValue, Num(100)),
          roe    |-> Times100(Get(up.f.returnOnEquity, Num(0))),
          cash   |-> Get(up.f.totalCash, Num(0)),
          debt   |-> Get(up.f.totalDebt, Num(0))]

(***************************************************************************)
(* What the two tabs compute from a fetched quote.                         *)
(***************************************************************************)
NoMetrics == [exc |-> "none", price |-> 0, divy |-> 0, pb |-> 0]

\* Tab 1, the three metrics of the search view, evaluated in source order;
\* exc is the exception that stops the script, "none" when all three render.
Tab1Metrics(d) ==
    IF d.price.t # "num"
    THEN [NoMetrics EXCEPT !.exc =
            IF d.price.t = "str" THEN "ValueError" ELSE "TypeError"]
    ELSE IF d.div.t # "num" THEN [NoMetrics EXCEPT !.exc = "TypeError"]
    ELSE IF d.price.n = 0 THEN [NoMetrics EXCEPT !.exc = "ZeroDivisionError"]
    ELSE IF d.bv.t # "num" THEN [NoMetrics EXCEPT !.exc = "TypeError"]
    ELSE IF d.bv.n = 0 THEN [NoMetrics EXCEPT !.exc = "ZeroDivisionError"]
    ELSE [exc   |-> "none",
          price |-> d.price.n,
          divy  |-> RoundDiv(d.div.n * 10000, d.price.n),
          pb    |-> RoundDiv(d.price.n * 100, d.bv.n)]

NoRow ==
    [exc |-> "none", Ticker |-> <<>>, Company |-> <<>>, Price |-> 0,
     PE |-> Absent, PB |-> 0, Yield |-> 0, ROE |-> 0, NetCash |-> 0]

\* Tab 2, the row computed for one fetched quote, evaluated in source order;
\* exc is the exception that stops the script, "none" when the row is built.
WatchlistRow(d) ==
    IF d.price.t # "num" THEN [NoRow EXCEPT !.exc = "TypeError"]
    ELSE IF d.price.n > 0 /\ d.div.t # "num"
         THEN [NoRow EXCEPT !.exc = "TypeError"]
    ELSE IF d.bv.t # "num" THEN [NoRow EXCEPT !.exc = "TypeError"]
    ELSE IF d.bv.n = 0 THEN [NoRow EXCEPT !.exc = "ZeroDivisionError"]
    ELSE IF d.cash.t # "num" \/ d.debt.t # "num"
         THEN [NoRow EXCEPT !.exc = "TypeError"]
    ELSE IF d.name.t # "str" THEN [NoRow EXCEPT !.exc = "TypeError"]
    ELSE IF d.roe.t # "num" THEN [NoRow EXCEPT !.exc = "TypeError"]
    ELSE [exc     |-> "none",
          Ticker  |-> StrRemoveAll(d.symbol, Suffix),
          Company |-> StrTake(d.name.s, 20),
          Price   |-> d.price.n,
          PE      |-> IF d.pe = Num(0) THEN Str(NA) ELSE d.pe,
          PB      |-> RoundDiv(d.price.n * 100, d.bv.n),
          Yield   |-> IF d.price.n > 0
                      THEN RoundDiv(d.div.n * 10000, d.price.n) ELSE 0,
          ROE     |-> RoundDiv(d.roe.n, 10),
          NetCash |-> RoundDiv(d.cash.n - d.debt.n, 100000)]

(***************************************************************************)
(* SGXEngine.calculate_fees.  A trade value is in whole dollars; amounts   *)
(* are in millionths of a dollar until the final rounding to cents.        *)
(***************************************************************************)
\* 0.0003 of the trade value, in millionths per dollar.
BrokerRate == 300
\* The commission floor 0.99.
MinCommission == 990000
\* 0.0004 of the trade value.
SgxRate == 400
\* The flat settlement fee 0.35.
Settlement == 350000
\* The factor 1.09, in hundredths.
GstFactor == 109
\* Millionths of a dollar times hundredths, per cent.
CentScale == 1000000

Max(a, b) == IF a >= b THEN a ELSE b

\* round(x, 2) of x = n / d cents: the nearest integer; exactly halfway the
\* binary float may sit on either side, so both neighbours are possible.
Nearest(n, d) ==
    LET q == n \div d
        r == n % d
    IN  IF 2 * r < d THEN {q} ELSE IF 2 * r > d THEN {q + 1} ELSE {q, q + 1}

\* Variant: the commission has no floor.
calculate_fees_NoFloor(trade_value) ==
    Nearest((trade_value * BrokerRate + trade_value * SgxRate + Settlement)
                * GstFactor, CentScale)

\* The fee, in cents, charged on trade_value.
calculate_fees(trade_value) ==
    LET broker_comm == Max(trade_value * BrokerRate, MinCommission)
        sgx_fees    == trade_value * SgxRate
        settlement  == Settlement
    IN  Nearest((broker_comm + sgx_fees + settlement) * GstFactor, CentScale)

TradeValues == {k * TradeStep : k \in 0..MaxTradeSteps}

(***************************************************************************)
(* Persistence: watchlist_data.json.  The file is missing, holds text that *)
(* json.load cannot parse, or holds a JSON array of objects.               *)
(***************************************************************************)
\* json.dump of one Python value.
JsonValue(v) ==
    CASE v.t = "str"  -> [j |-> "string", n |-> 0, s |-> v.s]
      [] v.t = "num"  -> [j |-> "number", n |-> v.n, s |-> <<>>]
      [] OTHER        -> [j |-> "null", n |-> 0, s |-> <<>>]

\* json.load of one JSON value.
PyValue(x) ==
    CASE x.j = "string" -> Str(x.s)
      [] x.j = "number" -> Num(x.n)
      [] OTHER          -> Null

\* json.dump(watchlist, f): the array of {"Ticker": ..., "Name": ...} objects.
JsonDump(wl) ==
    [k \in 1..Len(wl) |->
        [Ticker |-> JsonValue(Str(wl[k].Ticker)), Name |-> JsonValue(wl[k].Name)]]

\* json.load(f) of such an array.
JsonLoad(doc) ==
    [k \in 1..Len(doc) |->
        [Ticker |-> PyValue(doc[k].Ticker).s, Name |-> PyValue(doc[k].Name)]]

NoFile  == [kind |-> "missing", doc |-> <<>>]
BadFile == [kind |-> "corrupt", doc |-> <<>>]

\* Variant: no try/except around json.load.
load_watchlist_NoExcept(file) ==
    IF file.kind = "missing" THEN [raised |-> FALSE, val |-> <<>>]
    ELSE IF file.kind = "corrupt" THEN [raised |-> TRUE, val |-> <<>>]
    ELSE [raised |-> FALSE, val |-> JsonLoad(file.doc)]

\* load_watchlist(): a missing file and a file json.load fails on both give
\* the empty list; nothing is raised.
load_watchlist(file) ==
    IF file.kind = "missing" THEN [raised |-> FALSE, val |-> <<>>]
    ELSE IF file.kind = "corrupt" THEN [raised |-> FALSE, val |-> <<>>]
    ELSE [raised |-> FALSE, val |-> JsonLoad(file.doc)]

\* How the write of the file ends: it succeeds, or open() raises OSError and
\* the file is left as it was.
SaveOutcomes == {"ok", "open_fails"}

\* Variant: the call returns without writing the file.
save_watchlist_NoWrite(wl, file, outcome) == [raised |-> FALSE, file |-> file]

\* save_watchlist(watchlist) on the file, ending as outcome says.
save_watchlist(wl, file, outcome) ==
    IF outcome = "ok"
    THEN [raised |-> FALSE, file |-> [kind |-> "json", doc |-> JsonDump(wl)]]
    ELSE [raised |-> TRUE, file |-> file]

(***************************************************************************)
(* The add-to-watchlist handler of tab 1.                                  *)
(***************************************************************************)
\* any(item['Ticker'] == symbol for item in watchlist)
InWatchlist(wl, symbol) == \E k \in 1..Len(wl) : wl[k].Ticker = symbol

\* Variant: a new entry is put at the front of the list.
AddToWatchlist_Front(wl, file, d, outcome) ==
    IF ~InWatchlist(wl, d.symbol)
    THEN LET inserted == <<[Ticker |-> d.symbol, Name |-> d.name]>> \o wl
             saved    == save_watchlist(inserted, file, outcome)
         IN  [watchlist |-> inserted, file |-> saved.file,
              raised |-> saved.raised,
              result |-> IF saved.raised THEN "unsaved" ELSE "added"]
    ELSE [watchlist |-> wl, file |-> file, raised |-> FALSE,
          result |-> "already"]

\* The button's body: append and save unless the symbol is listed already.
AddToWatchlist(wl, file, d, outcome) ==
    IF ~InWatchlist(wl, d.symbol)
    THEN LET appended == Append(wl, [Ticker |-> d.symbol, Name |-> d.name])
             saved    == save_watchlist(appended, file, outcome)
         IN  [watchlist |-> appended, file |-> saved.file,
              raised |-> saved.raised,
              result |-> IF saved.raised THEN "unsaved" ELSE "added"]
    ELSE [watchlist |-> wl, file |-> file, raised |-> FALSE,
          result |-> "already"]

(***************************************************************************)
(* What the user may type into the ticker box.                             *)
(***************************************************************************)
BaseTickers == <<<<"d", "5">>, <<"o", "3">>, <<"z", "7">>, <<"s", "6">>>>

\* Each base ticker in lower case, in upper case with the suffix, in upper
\* case between blanks, and in lower case with a mixed-case suffix and a
\* trailing blank.
Spellings(b) ==
    {b, StrUpper(b) \o Suffix, <<" ">> \o StrUpper(b) \o <<" ">>,
     b \o <<".", "S", "i", " ">>}

TickerInputs ==
    {<<>>} \cup UNION {Spellings(BaseTickers[k]) : k \in 1..NumTickers}

\* The answers of the upstream the application is run against: the request
\* raises, or info is well formed, or well formed but for a book value of 0.
AppUpstreams ==
    {u \in Upstreams :
        /\ u.hist = Absent
        /\ u.kind # "empty"
        /\ u.f \in {Nominal, [Nominal EXCEPT !.bookValue = Num(0)]}}

\* The lists an earlier run of the program can have left in the file.
RECURSIVE ListsOver(_)
ListsOver(S) ==
    {<<>>} \cup UNION {{<<[Ticker |-> x, Name |-> Nominal.longName]>> \o rest :
                            rest \in ListsOver(S \ {x})} : x \in S}

SavedLists ==
    ListsOver({Symbol(StrUpper(BaseTickers[k])) : k \in 1..NumTickers})

(***************************************************************************)
(* State.                                                                  *)
(***************************************************************************)
VARIABLES
    file,           \* watchlist_data.json
    watchlist,      \* st.session_state.watchlist
    text,           \* the content of the ticker box
    clicked,        \* the button whose click started the script run
    pc,             \* where the script run is
    ticker_input,   \* tab 1: the text, upper-cased and stripped
    data,           \* tab 1: what fetch_safe_data returned
    metrics,        \* tab 1: the three metrics
    raw_rows,       \* tab 2: the rows built so far
    i,              \* tab 2: the entry the loop is at
    fetched,        \* tab 2: per entry visited, whether a quote came back
    exc,            \* the exception that stopped the run, or "none"
    shown,          \* the buttons the run has rendered
    add_result,     \* what the add handler did in this run
    last_change,    \* whether the last add of a new symbol or clear was saved
    up,             \* the upstream answer under normalisation
    row,            \* the watchlist row of the quote under normalisation
    trade_value,    \* the argument of calculate_fees
    fees            \* its result, in cents

vars ==
    <<file, watchlist, text, clicked, pc, ticker_input, data, metrics,
      raw_rows, i, fetched, exc, shown, add_result, last_change, up,
      row, trade_value, fees>>

appVars ==
    <<file, watchlist, text, clicked, ticker_input, data, metrics, raw_rows,
      i, fetched, exc, shown, add_result, last_change>>

NoUpstream == [kind |-> "raise", f |-> Nominal, hist |-> Absent]

\* The values the variables of a script run have when the run begins.
RunLocalsReset ==
    /\ ticker_input' = <<>>
    /\ data' = NoQuote
    /\ metrics' = NoMetrics
    /\ raw_rows' = <<>>
    /\ i' = 0
    /\ fetched' = <<>>
    /\ exc' = "none"
    /\ shown' = {}
    /\ add_result' = "none"

Init ==
    /\ file \in {NoFile, BadFile}
                \cup {[kind |-> "json", doc |-> JsonDump(wl)] : wl \in SavedLists}
    /\ watchlist = <<>>
    /\ text = <<>>
    /\ clicked = "none"
    /\ pc = "start"
    /\ ticker_input = <<>>
    /\ data = NoQuote
    /\ metrics = NoMetrics
    /\ raw_rows = <<>>
    /\ i = 0
    /\ fetched = <<>>
    /\ exc = "none"
    /\ shown = {}
    /\ add_result = "none"
    /\ last_change = "none"
    /\ up = NoUpstream
    /\ row = NoRow
    /\ trade_value = 0
    /\ fees = 0

(***************************************************************************)
(* The script, lines 75 to 153, one action per stretch of it that runs     *)
(* between two calls of the upstream or ends the run.                      *)
(***************************************************************************)
\* Lines 76-77, on the first run of the session: the watchlist is loaded.
\* A raise would leave the session without a watchlist, to be loaded again.
Start ==
    /\ pc = "start"
    /\ LET r == load_watchlist(file)
       IN  /\ watchlist' = r.val
           /\ exc' = IF r.raised THEN "JSONDecodeError" ELSE "none"
           /\ pc' = IF r.raised THEN "start" ELSE "tab1"
    /\ UNCHANGED <<file, text, clicked, ticker_input, data, metrics, raw_rows,
                   i, fetched, shown, add_result, last_change, up, row,
                   trade_value, fees>>

\* The user enters a new text in the ticker box: the script runs again.
TypeTicker(t) ==
    /\ pc = "idle"
    /\ t # text
    /\ text' = t
    /\ clicked' = "none"
    /\ pc' = "tab1"
    /\ RunLocalsReset
    /\ UNCHANGED <<file, watchlist, last_change, up, row, trade_value, fees>>

\* The user clicks a button the last run rendered: the script runs again.
Click(b) ==
    /\ pc = "idle"
    /\ b \in shown
    /\ clicked' = b
    /\ pc' = "tab1"
    /\ RunLocalsReset
    /\ UNCHANGED <<file, watchlist, text, last_change, up, row,
                   trade_value, fees>>

\* Lines 83-101: tab 1.  The upstream answers u; a save ends as outcome.
Tab1(u, outcome) ==
    /\ pc = "tab1"
    /\ LET ti == StrStrip(StrUpper(text))
           d  == fetch_safe_data(ti, u)
           m  == Tab1Metrics(d)
           a  == AddToWatchlist(watchlist, file, d, outcome)
       IN  /\ ticker_input' = ti
           /\ data' = d
           /\ IF ~d.some
              THEN /\ pc' = "tab2"
                   /\ UNCHANGED <<file, watchlist, metrics, exc, shown,
                                  add_result, last_change>>
              ELSE IF m.exc # "none"
              THEN /\ metrics' = m
                   /\ exc' = m.exc
                   /\ pc' = "idle"
                   /\ UNCHANGED <<file, watchlist, shown, add_result, last_change>>
              ELSE IF clicked # "add"
              THEN /\ metrics' = m
                   /\ shown' = shown \cup {"add"}
                   /\ pc' = "tab2"
                   /\ UNCHANGED <<file, watchlist, exc, add_result, last_change>>
              ELSE /\ metrics' = m
                   /\ shown' = shown \cup {"add"}
                   /\ watchlist' = a.watchlist
                   /\ file' = a.file
                   /\ add_result' = a.result
                   /\ last_change' = CASE a.result = "added"   -> "saved"
                                       [] a.result = "unsaved" -> "failed"
                                       [] OTHER                -> last_change
                   /\ exc' = IF a.raised THEN "OSError" ELSE "none"
                   /\ pc' = IF a.raised THEN "idle" ELSE "tab2"
    /\ UNCHANGED <<text, clicked, raw_rows, i, fetched, up, row,
                   trade_value, fees>>

\* Lines 105-111 and 152-153: tab 2 up to the loop.  An empty watchlist ends
\* the run; the refresh button clears the cache and starts the script again.
Tab2 ==
    /\ pc = "tab2"
    /\ IF watchlist = <<>>
       THEN /\ pc' = "idle"
            /\ UNCHANGED <<clicked, ticker_input, data, metrics, raw_rows, i,
                           fetched, exc, shown, add_result>>
       ELSE IF clicked = "refresh"
       THEN /\ pc' = "tab1"
            /\ clicked' = "none"
            /\ RunLocalsReset
       ELSE /\ pc' = "loop"
            /\ shown' = shown \cup {"refresh"}
            /\ raw_rows' = <<>>
            /\ i' = 1
            /\ UNCHANGED <<clicked, ticker_input, data, metrics, fetched, exc,
                           add_result>>
    /\ UNCHANGED <<file, watchlist, text, last_change, up, row,
                   trade_value, fees>>

\* Lines 113-129: one iteration of the loop; the upstream answers u.
LoopStep(u) ==
    /\ pc = "loop"
    /\ i <= Len(watchlist)
    /\ LET d == fetch_safe_data(watchlist[i].Ticker, u)
           r == WatchlistRow(d)
       IN  /\ fetched' = Append(fetched, d.some)
           /\ IF ~d.some
              THEN /\ i' = i + 1
                   /\ UNCHANGED <<raw_rows, exc, pc>>
              ELSE IF r.exc # "none"
              THEN /\ exc' = r.exc
                   /\ pc' = "idle"
                   /\ UNCHANGED <<raw_rows, i>>
              ELSE /\ raw_rows' = Append(raw_rows, r)
                   /\ i' = i + 1
                   /\ UNCHANGED <<exc, pc>>
    /\ UNCHANGED <<file, watchlist, text, clicked, ticker_input, data, metrics,
                   shown, add_result, last_change, up, row, trade_value,
                   fees>>

\* Lines 131-151: after the loop.  The clear button empties the watchlist,
\* saves the empty list and starts the script again.
LoopEnd(outcome) ==
    /\ pc = "loop"
    /\ i > Len(watchlist)
    /\ IF clicked # "clear"
       THEN /\ pc' = "idle"
            /\ shown' = shown \cup {"clear"}
            /\ UNCHANGED <<file, watchlist, clicked, ticker_input, data,
                           metrics, raw_rows, i, fetched, exc, add_result,
                           last_change>>
       ELSE LET saved == save_watchlist(<<>>, file, outcome)
            IN  /\ watchlist' = <<>>
                /\ file' = saved.file
                /\ IF saved.raised
                   THEN /\ exc' = "OSError"
                        /\ pc' = "idle"
                        /\ shown' = shown \cup {"clear"}
                        /\ last_change' = "failed"
                        /\ UNCHANGED <<clicked, ticker_input, data, metrics,
                                       raw_rows, i, fetched, add_result>>
                   ELSE /\ pc' = "tab1"
                        /\ clicked' = "none"
                        /\ last_change' = "saved"
                        /\ RunLocalsReset
    /\ UNCHANGED <<text, up, row, trade_value, fees>>

Next ==
    \/ Start
    \/ \E t \in TickerInputs : TypeTicker(t)
    \/ \E b \in {"add", "refresh", "clear"} : Click(b)
    \/ \E u \in AppUpstreams, outcome \in SaveOutcomes : Tab1(u, outcome)
    \/ Tab2
    \/ \E u \in AppUpstreams : LoopStep(u)
    \/ \E outcome \in SaveOutcomes : LoopEnd(outcome)

Spec == Init /\ [][Next]_vars

(***************************************************************************)
(* fetch_safe_data and the two views on their own: the ticker and the      *)
(* upstream answer are drawn at the start, then the quote is fetched and   *)
(* both tabs compute their figures from it.                                *)
(***************************************************************************)
AppIdle ==
    /\ file = NoFile
    /\ watchlist = <<>>
    /\ clicked = "none"
    /\ raw_rows = <<>>
    /\ i = 0
    /\ fetched = <<>>
    /\ exc = "none"
    /\ shown = {}
    /\ add_result = "none"
    /\ last_change = "none"

InitFetch ==
    /\ AppIdle
    /\ text \in TickerInputs
    /\ up \in Upstreams
    /\ pc = "fetch"
    /\ ticker_input = <<>>
    /\ data = NoQuote
    /\ metrics = NoMetrics
    /\ row = NoRow
    /\ trade_value = 0
    /\ fees = 0

\* Line 83 and fetch_safe_data, lines 28-58.
Normalize ==
    /\ pc = "fetch"
    /\ ticker_input' = StrStrip(StrUpper(text))
    /\ data' = fetch_safe_data(ticker_input', up)
    /\ pc' = "fetched"
    /\ UNCHANGED <<file, watchlist, text, clicked, metrics, raw_rows, i,
                   fetched, exc, shown, add_result, last_change, up, row,
                   trade_value, fees>>

\* Lines 86-91 and 115-129 on the quote, when there is one.
View ==
    /\ pc = "fetched"
    /\ data.some
    /\ metrics' = Tab1Metrics(data)
    /\ row' = WatchlistRow(data)
    /\ pc' = "viewed"
    /\ UNCHANGED <<file, watchlist, text, clicked, ticker_input, data,
                   raw_rows, i, fetched, exc, shown, add_result, last_change,
                   up, trade_value, fees>>

NextFetch == Normalize \/ View

SpecFetch == InitFetch /\ [][NextFetch]_vars

(***************************************************************************)
(* calculate_fees on its own.                                              *)
(***************************************************************************)
InitFees ==
    /\ AppIdle
    /\ text = <<>>
    /\ up = NoUpstream
    /\ pc = "fees"
    /\ ticker_input = <<>>
    /\ data = NoQuote
    /\ metrics = NoMetrics
    /\ row = NoRow
    /\ trade_value \in TradeValues
    /\ fees = 0

CalcFees ==
    /\ pc = "fees"
    /\ fees' \in calculate_fees(trade_value)
    /\ pc' = "fees_done"
    /\ UNCHANGED <<appVars, up, row, trade_value>>

NextFees == CalcFees

SpecFees == InitFees /\ [][NextFees]_vars

(***************************************************************************)
(* Properties.                                                             *)
(***************************************************************************)
\* The canonical symbol of a ticker: upper case, trimmed, with the market
\* suffix present exactly once at the end.
CanonicalSymbol(t) ==
    LET u == StrStrip(StrUpper(t))
    IN  IF EndsWith(u, <<".", "S", "I">>) THEN u ELSE u \o <<".", "S", "I">>

IsPrefix(a, b) == Len(a) <= Len(b) /\ SubSeq(b, 1, Len(a)) = a

\* C1: no two watchlist entries have the same canonical symbol, whatever
\* the case, padding and suffix of the tickers that were typed and added.
C1_UniqueSymbols ==
    \A a, b \in 1..Len(watchlist) :
        a # b => CanonicalSymbol(watchlist[a].Ticker)
                    # CanonicalSymbol(watchlist[b].Ticker)

\* C1 witness: the add button was clicked on a ticker typed in a spelling
\* other than the one stored, and the list still holds it once.
C1_Witness ==
    /\ add_result = "already"
    /\ text # <<>>
    /\ \A k \in 1..Len(watchlist) : watchlist[k].Ticker # text
    /\ Cardinality({k \in 1..Len(watchlist) :
            CanonicalSymbol(watchlist[k].Ticker) = CanonicalSymbol(text)}) = 1

\* C2: once an add of a new symbol or a clear has completed, the file holds
\* the in-memory watchlist: loading it gives back exactly that sequence.
C2_FileIsWatchlist ==
    last_change = "saved" =>
        /\ file.kind = "json"
        /\ ~load_watchlist(file).raised
        /\ load_watchlist(file).val = watchlist

\* C2 witness: a clear has completed; list and file are both empty.
C2_Witness ==
    /\ last_change = "saved"
    /\ watchlist = <<>>
    /\ file.kind = "json"
    /\ load_watchlist(file).val = <<>>
    /\ pc = "idle"

\* C3: a quote is returned exactly when one of current price, regular market
\* price and last historical close is a number, and its price is the first
\* of these that is.
C3_PriceSources ==
    (pc # "fetch" /\ ticker_input # <<>>) =>
        LET sources == <<up.f.currentPrice, up.f.regularMarketPrice, up.hist>>
            usable  == {k \in 1..3 : sources[k].t = "num"}
            first   == CHOOSE k \in usable : \A j \in usable : k <= j
        IN  /\ data.some <=> (up.kind = "dict" /\ usable # {})
            /\ data.some => data.price = sources[first]

\* The value of a field, or its default when it is missing, None or of the
\* wrong type.
OrDefault(v, type, default) == IF v.t = type THEN v ELSE default

\* C4: once the payload has a price, a quote is returned whatever the other
\* fields hold, each of them replaced by its default when it is missing,
\* None or of the wrong type.
C4_FieldDefaults ==
    (pc # "fetch" /\ ticker_input # <<>> /\ up.kind = "dict"
        /\ up.f.currentPrice.t = "num") =>
        /\ data.some
        /\ data.name = OrDefault(up.f.longName, "str", data.name)
        /\ data.name.t = "str"
        /\ data.div = OrDefault(up.f.dividendRate, "num", Num(0))
        /\ data.bv = IF up.f.bookValue = Num(0) THEN Num(100)
                     ELSE OrDefault(up.f.bookValue, "num", Num(100))
        /\ data.roe = Times100(OrDefault(up.f.returnOnEquity, "num", Num(0)))
        /\ data.cash = OrDefault(up.f.totalCash, "num", Num(0))
        /\ data.debt = OrDefault(up.f.totalDebt, "num", Num(0))

\* C5: the book value of a returned quote is never 0, and the price-to-book
\* division of the watchlist row never divides by zero.
C5_BookValueNonZero ==
    data.some =>
        /\ data.bv # Num(0)
        /\ pc = "viewed" => row.exc # "ZeroDivisionError"

\* C6: every iteration of the refresh loop goes on to the next entry, adds
\* the row of the entry exactly when its fetch returned a quote, and leaves
\* the watchlist and the file as they are.
C6_RefreshRows ==
    [][(pc = "loop" /\ i <= Len(watchlist)) =>
        /\ exc' = "none"
        /\ i' = i + 1
        /\ watchlist' = watchlist
        /\ file' = file
        /\ IF fetched'[Len(fetched')]
           THEN /\ Len(raw_rows') = Len(raw_rows) + 1
                /\ SubSeq(raw_rows', 1, Len(raw_rows)) = raw_rows
                /\ raw_rows'[Len(raw_rows')].Ticker
                      = StrRemoveAll(watchlist[i].Ticker, Suffix)
           ELSE raw_rows' = raw_rows]_vars

C8_AddAppends ==
    [][/\ (pc = "tab1" /\ clicked = "add" /\ data'.some
            /\ metrics'.exc = "none") =>
            IF InWatchlist(watchlist, data'.symbol)
            THEN watchlist' = watchlist /\ file' = file
            ELSE watchlist' = Append(watchlist, [Ticker |-> data'.symbol,
                                                 Name |-> data'.name])
       /\ (pc = "tab1" /\ ~(clicked = "add" /\ data'.some
            /\ metrics'.exc = "none")) =>
            watchlist' = watchlist /\ file' = file
       /\ ~IsPrefix(watchlist, watchlist') =>
            pc = "loop" /\ clicked = "clear" /\ watchlist' = <<>>]_vars

\* C8 witness: a new symbol was added to a list that held entries already.
C8_Witness ==
    /\ add_result = "added"
    /\ Len(watchlist) >= 2
    /\ watchlist[Len(watchlist)].Ticker = data.symbol

\* C9 as stated: the fee on a trade value of 0 is 0.38.
C9_FeeOfZeroAsStated ==
    (pc = "fees_done" /\ trade_value = 0) => fees = 38

\* C9: the fee on a trade value of 0 is (0.99 + 0.35) * 1.09 rounded to two
\* places, 1.46: the commission floor of 0.99 applies.
C9_FeeOfZero ==
    (pc = "fees_done" /\ trade_value = 0) => fees = 146

\* C9 witness: calculate_fees(0) has been computed.
C9_Witness == pc = "fees_done" /\ trade_value = 0

\* C10: both views compute the dividend yield as (dividend / price) * 100
\* when the price is above 0 and as 0 otherwise, without dividing by zero.
C10_DividendYield ==
    (pc = "viewed" /\ data.price.t = "num" /\ data.div.t = "num"
        /\ data.bv.t = "num" /\ data.bv.n # 0) =>
        LET yield == IF data.price.n > 0
                     THEN RoundDiv(data.div.n * 10000, data.price.n) ELSE 0
        IN  /\ metrics.exc = "none"
            /\ metrics.divy = yield
            /\ row.exc = "none" => row.Yield = yield

====
